---------------------------- MODULE Spec2Model ----------------------------
(***************************************************************************)
(* Model of core/src/KokkosExp_MDRangePolicy.hpp (Kokkos::Experimental):   *)
(* the Rank iteration pattern, the MDRangePolicy constructor (host and     *)
(* Cuda tile resolution), and the md_parallel_for / md_parallel_reduce     *)
(* entry points.                                                           *)
(*                                                                         *)
(* Arrays (Kokkos::Array<index_type,rank>) are functions over 0..rank-1,   *)
(* indexed as in the source.                                               *)
(***************************************************************************)
EXTENDS Integers, Sequences, FiniteSets, Bags, TLC

(***************************************************************************)
(* Bounds of the model.                                                    *)
(***************************************************************************)
\* largest template argument N tried for Rank<N,...>
MaxRankTried == 8
\* largest rank for which policies are constructed and dispatched
MaxGeomRank == 3
\* spans upper[i]-lower[i] range over 0..MaxSpan
MaxSpan == 3
\* dispatches are followed tile by tile for ranges of at most MaxTiles tiles
MaxTiles == 4

Spans == 0 .. MaxSpan
\* on Cuda the span only enters the tile counts: the two extreme spans
CudaSpans == {0, MaxSpan}
Lowers == {0, 1}
\* tile arguments: 0 is "unset"
HostHints == {0, 2}
CudaHints == {0, 2, 25, 32, 41}
ExecSpaces == {"Host", "Cuda"}

(***************************************************************************)
(* enum class Iterate and the per-execution-space defaults.                *)
(***************************************************************************)
Iterate == {"Default", "Left", "Right"}

default_outer_direction(ExecSpace) == "Right"

\* mutant: the inner default taken as Left
default_inner_direction_Left(ExecSpace) == "Left"

default_inner_direction(ExecSpace) == "Right"

\* mutant: the rank 1 static_assert left out
RankAccepted_NoRank1(n) == n # 0 /\ n < 7

\* the three static_asserts of struct Rank
RankAccepted(n) == n # 0 /\ n # 1 /\ n < 7

VARIABLES
  pc,           \* "start", "rejected", "typed", "built", "thrown", "trapped",
                \* "running", "done"
  N,            \* Rank<N, OuterDir, InnerDir>
  OuterDir,
  InnerDir,
  space,        \* traits::execution_space
  tile_arg,     \* the constructor's tile argument
  m_lower,
  m_upper,
  m_tile,
  m_tile_end,
  m_num_tiles,
  entry,        \* "none", "for", "reduce": the entry point called
  path,         \* "none", "flat" (range_policy + MDFunctor), "native"
  work,         \* the work items of range_policy(0, m_num_tiles)
  finished,     \* the work items that have run
  visits,       \* bag of the coordinates the functor was called on
  joinop,       \* the reduction's combine operator
  merged,       \* the scheduler's combined partial results
  v             \* the caller's accumulator

vars == << pc, N, OuterDir, InnerDir, space, tile_arg, m_lower, m_upper,
           m_tile, m_tile_end, m_num_tiles, entry, path, work, finished,
           visits, joinop, merged, v >>

typeVars == << N, OuterDir, InnerDir, space >>
geomVars == << tile_arg, m_lower, m_upper, m_tile, m_tile_end, m_num_tiles >>
runVars == << entry, path, work, finished, visits, joinop, merged, v >>

Dims == 0 .. (N - 1)

(***************************************************************************)
(* MDRangePolicy's static members.                                         *)
(***************************************************************************)
outer_direction ==
  IF OuterDir # "Default" THEN OuterDir ELSE default_outer_direction(space)

inner_direction ==
  IF InnerDir # "Default" THEN InnerDir ELSE default_inner_direction(space)

(***************************************************************************)
(* Integer division of index_type: truncation toward zero.  A division by  *)
(* zero is undefined behaviour; dz is what the build makes of it: a trap   *)
(* (dz.trap) or the quotient dz.q left by the divide instruction.          *)
(***************************************************************************)
Abs(a) == IF a < 0 THEN -a ELSE a

CDiv(a, b, dz) ==
  IF b = 0 THEN dz.q
  ELSE IF (a < 0) = (b < 0) THEN Abs(a) \div Abs(b)
  ELSE -(Abs(a) \div Abs(b))

\* outcomes of a division by zero: a hardware trap, or the quotient the
\* divide instruction leaves (all ones, zero, or another value)
DivByZero ==
  { [trap |-> TRUE, q |-> 0] } \cup { [trap |-> FALSE, q |-> x] : x \in {-1, 0, 1} }

(***************************************************************************)
(* The constructor's loops.  st is the record of the members being built   *)
(* (m_tile, m_tile_end, m_num_tiles) and whether a division trapped.       *)
(***************************************************************************)
\* mutant: the Left and Right conditions exchanged
HostDefaultTile_Swapped(i, n, inner, span) ==
  IF (inner = "Left" /\ i < n - 1) \/ (inner = "Right" /\ i > 0)
  THEN 2
  ELSE span

HostDefaultTile(i, n, inner, span) ==
  IF (inner = "Right" /\ i < n - 1) \/ (inner = "Left" /\ i > 0)
  THEN 2
  ELSE span

\* mutant: the tile count rounded down
TileEnd_Floor(span, tile, dz) == CDiv(span, tile, dz)

TileEnd(span, tile, dz) == CDiv(span + tile - 1, tile, dz)

HostStep(st, i, n, inner, lower, upper, dz) ==
  LET span == upper[i] - lower[i]
      t1   == IF st.m_tile[i] <= 0
              THEN [st.m_tile EXCEPT ![i] = HostDefaultTile(i, n, inner, span)]
              ELSE st.m_tile
      e    == TileEnd(span, t1[i], dz)
  IN  [ m_tile      |-> t1,
        m_tile_end  |-> [st.m_tile_end EXCEPT ![i] = e],
        m_num_tiles |-> st.m_num_tiles * e,
        trapped     |-> (t1[i] = 0 /\ dz.trap) ]

\* m_tile = 8 : the whole array is assigned from the scalar
ArrayFromScalar(n, x) == [i \in 0 .. (n - 1) |-> x]

CudaDefaultTile(tile, i, n) == ArrayFromScalar(n, 8)

CudaStep(st, i, n, lower, upper, dz) ==
  LET span == upper[i] - lower[i]
      t1   == IF st.m_tile[i] <= 0
              THEN CudaDefaultTile(st.m_tile, i, n)
              ELSE st.m_tile
      e    == TileEnd(span, t1[i], dz)
  IN  [ m_tile      |-> t1,
        m_tile_end  |-> [st.m_tile_end EXCEPT ![i] = e],
        m_num_tiles |-> st.m_num_tiles * e,
        trapped     |-> (t1[i] = 0 /\ dz.trap) ]

RECURSIVE HostLoop(_, _, _, _, _, _, _)
HostLoop(st, i, n, inner, lower, upper, dz) ==
  IF i >= n \/ st.trapped THEN st
  ELSE HostLoop(HostStep(st, i, n, inner, lower, upper, dz),
                i + 1, n, inner, lower, upper, dz)

RECURSIVE CudaLoop(_, _, _, _, _, _)
CudaLoop(st, i, n, lower, upper, dz) ==
  IF i >= n \/ st.trapped THEN st
  ELSE CudaLoop(CudaStep(st, i, n, lower, upper, dz), i + 1, n, lower, upper, dz)

RECURSIVE Product(_, _)
Product(a, n) == IF n = 0 THEN 1 ELSE Product(a, n - 1) * a[n - 1]

CudaMaxThreads == 1024

\* mutant: the limit itself refused
TileDimsExceed_AtLimit(tile, n) == Product(tile, n) >= CudaMaxThreads

\* total_tile_size_check > 1024
TileDimsExceed(tile, n) == Product(tile, n) > CudaMaxThreads

\* the member initialisers: m_tile{tile}, m_num_tiles{1}; m_tile_end has
\* none, every entry of it is assigned by the loop (0 stands for "not yet")
InitMembers(n, tile) ==
  [ m_tile      |-> tile,
    m_tile_end  |-> [i \in 0 .. (n - 1) |-> 0],
    m_num_tiles |-> 1,
    trapped     |-> FALSE ]

(***************************************************************************)
(* Constructor inputs: per dimension a pair <<span, tile>>; the arrays are *)
(* uniform in all dimensions but one, plus the documented scenario of      *)
(* span 10 in every dimension with no tile given.                          *)
(***************************************************************************)
UniformButOne(n, S) ==
  { [i \in 0 .. (n - 1) |-> IF i = k THEN a ELSE b] :
      k \in 0 .. (n - 1), a \in S, b \in S }

Inputs(n, es) ==
  UniformButOne(n, IF es = "Cuda" THEN CudaSpans \X CudaHints
                                     ELSE Spans \X HostHints)
    \cup { [i \in 0 .. (n - 1) |-> << 10, 0 >>] }

NoArray == << >>

Init ==
  /\ pc = "start"
  /\ N = 0 /\ OuterDir = "Default" /\ InnerDir = "Default" /\ space = "Host"
  /\ tile_arg = NoArray /\ m_lower = NoArray /\ m_upper = NoArray
  /\ m_tile = NoArray /\ m_tile_end = NoArray /\ m_num_tiles = 0
  /\ entry = "none" /\ path = "none" /\ work = {} /\ finished = {}
  /\ visits = EmptyBag /\ joinop = "none" /\ merged = 0 /\ v = 0

(***************************************************************************)
(* Instantiating MDRangePolicy< Rank<n,od,id>, es >.                       *)
(***************************************************************************)
Instantiate(n, od, id, es) ==
  /\ pc = "start"
  /\ N' = n /\ OuterDir' = od /\ InnerDir' = id /\ space' = es
  /\ pc' = IF RankAccepted(n) THEN "typed" ELSE "rejected"
  /\ UNCHANGED << geomVars, runVars >>

(***************************************************************************)
(* MDRangePolicy( lower, upper, tile )                                     *)
(***************************************************************************)
Construct(lower, upper, tile, dz) ==
  /\ pc = "typed"
  /\ LET st == IF space # "Cuda"
               THEN HostLoop(InitMembers(N, tile), 0, N, inner_direction,
                             lower, upper, dz)
               ELSE CudaLoop(InitMembers(N, tile), 0, N, lower, upper, dz)
     IN  /\ tile_arg' = tile
         /\ m_lower' = lower
         /\ m_upper' = upper
         /\ m_tile' = st.m_tile
         /\ m_tile_end' = st.m_tile_end
         /\ m_num_tiles' = st.m_num_tiles
         /\ pc' = IF st.trapped THEN "trapped"
                  ELSE IF space = "Cuda" /\ TileDimsExceed(st.m_tile, N)
                       THEN "thrown"
                       ELSE "built"
  /\ UNCHANGED << typeVars, runVars >>

(***************************************************************************)
(* The flattened tile adapter (Impl::MDFunctor): work item t is decoded    *)
(* into a tile coordinate by mixed radix over m_tile_end in the outer      *)
(* direction, and the tile's clipped interior is walked in the inner       *)
(* direction.                                                              *)
(***************************************************************************)
RECURSIVE Stride(_, _, _)
Stride(i, outer, n) ==
  IF outer = "Right"
  THEN (IF i >= n - 1 THEN 1 ELSE m_tile_end[i + 1] * Stride(i + 1, outer, n))
  ELSE (IF i <= 0 THEN 1 ELSE m_tile_end[i - 1] * Stride(i - 1, outer, n))

TileCoord(t) ==
  [i \in Dims |-> (t \div Stride(i, outer_direction, N)) % m_tile_end[i]]

TileOrigin(t) == [i \in Dims |-> m_lower[i] + TileCoord(t)[i] * m_tile[i]]

Min(a, b) == IF a < b THEN a ELSE b

TileLimit(t) ==
  [i \in Dims |-> Min(TileOrigin(t)[i] + m_tile[i], m_upper[i])]

\* the dimensions from the outermost loop to the innermost one
LoopOrder(inner, n) ==
  [k \in 1 .. n |-> IF inner = "Right" THEN k - 1 ELSE n - k]

RECURSIVE Nest(_, _, _, _, _), Loop(_, _, _, _, _, _)
Nest(order, k, x, lo, hi) ==
  IF k > Len(order) THEN << x >>
  ELSE Loop(order, k, x, lo, hi, lo[order[k]])

Loop(order, k, x, lo, hi, val) ==
  IF val >= hi[order[k]] THEN << >>
  ELSE Nest(order, k + 1, [x EXCEPT ![order[k]] = val], lo, hi)
         \o Loop(order, k, x, lo, hi, val + 1)

\* the coordinates work item t calls the functor on, in order
TileSeq(t) ==
  Nest(LoopOrder(inner_direction, N), 1, TileOrigin(t), TileOrigin(t), TileLimit(t))

RECURSIVE BagOfSeq(_)
BagOfSeq(sq) ==
  IF sq = << >> THEN EmptyBag ELSE SetToBag({Head(sq)}) (+) BagOfSeq(Tail(sq))

(***************************************************************************)
(* The iteration space [m_lower, m_upper).                                 *)
(***************************************************************************)
RECURSIVE MinOf(_, _), MaxOf(_, _)
MinOf(a, n) == IF n = 1 THEN a[0] ELSE Min(MinOf(a, n - 1), a[n - 1])
MaxOf(a, n) == IF n = 1 THEN a[0] ELSE -Min(-MaxOf(a, n - 1), -a[n - 1])

Box ==
  { x \in [Dims -> MinOf(m_lower, N) .. (MaxOf(m_upper, N) - 1)] :
      \A i \in Dims : m_lower[i] <= x[i] /\ x[i] < m_upper[i] }

(***************************************************************************)
(* The reduction: the functor contributes Weight(x) at coordinate x; the   *)
(* combine operator is "plus" (integer sum) or "first" (keep the left      *)
(* operand unless it is the identity), both associative with identity 0.   *)
(***************************************************************************)
JoinOps == {"plus", "first"}

Identity(op) == 0

Join(op, a, b) ==
  IF op = "plus" THEN a + b
  ELSE IF a # Identity(op) THEN a ELSE b

RECURSIVE SumTo(_, _)
SumTo(x, n) == IF n = 0 THEN 0 ELSE SumTo(x, n - 1) + x[n - 1]

Weight(x) == 1 + SumTo(x, N)

RECURSIVE FoldSeq(_, _)
FoldSeq(op, sq) ==
  IF sq = << >> THEN Identity(op)
  ELSE Join(op, Weight(Head(sq)), FoldSeq(op, Tail(sq)))

TilePartial(op, t) == FoldSeq(op, TileSeq(t))

(***************************************************************************)
(* range_policy(0, m_num_tiles).set_chunk_size(1): one work item per tile. *)
(***************************************************************************)
RangePolicy(begin, end) == begin .. (end - 1)

\* mutant: the host overload selected on every execution space
ForPath_AlwaysFlat(es) == "flat"

\* which md_parallel_for overload the enable_if conditions select
ForPath(es) == IF es = "Cuda" THEN "native" ELSE "flat"

\* md_parallel_reduce has no overload for Cuda
ReducePath(es) == "flat"

\* the range md_parallel_for hands to Kokkos::parallel_for
ForRange == RangePolicy(0, m_num_tiles)

\* mutant: the reduction's range started at 1
ReduceRange_FromOne == RangePolicy(1, m_num_tiles)

\* the range md_parallel_reduce hands to Kokkos::parallel_reduce
ReduceRange == RangePolicy(0, m_num_tiles)

(***************************************************************************)
(* md_parallel_for                                                         *)
(***************************************************************************)
md_parallel_for ==
  /\ pc = "built"
  /\ m_num_tiles <= MaxTiles
  /\ entry' = "for"
  /\ path' = ForPath(space)
  /\ IF ForPath(space) = "flat"
     THEN \* Kokkos::parallel_for( range_policy(0, m_num_tiles), MDFunctor )
          /\ work' = ForRange
          /\ pc' = "running"
          /\ visits' = visits
     ELSE \* DeviceIterateTile closure(range, f); closure.execute()
          /\ work' = work
          /\ pc' = "done"
          /\ visits' = SetToBag(Box)
  /\ UNCHANGED << typeVars, geomVars, finished, joinop, merged, v >>

(***************************************************************************)
(* md_parallel_reduce                                                      *)
(***************************************************************************)
md_parallel_reduce(op) ==
  /\ pc = "built"
  /\ m_num_tiles <= MaxTiles
  /\ entry' = "reduce"
  /\ path' = ReducePath(space)
  /\ work' = ReduceRange
  /\ joinop' = op
  /\ merged' = Identity(op)
  /\ pc' = "running"
  /\ UNCHANGED << typeVars, geomVars, finished, visits, v >>

(***************************************************************************)
(* The single-dimension scheduler: the work items run in any order; a      *)
(* reduction's partial results are combined as the items complete and the  *)
(* result is stored to the accumulator once all have.                      *)
(***************************************************************************)
RunTile(t) ==
  /\ pc = "running"
  /\ t \in work \ finished
  /\ finished' = finished \cup {t}
  /\ visits' = visits (+) BagOfSeq(TileSeq(t))
  /\ merged' = IF entry = "reduce"
               THEN Join(joinop, merged, TilePartial(joinop, t))
               ELSE merged
  /\ UNCHANGED << pc, typeVars, geomVars, entry, path, work, joinop, v >>

Complete ==
  /\ pc = "running"
  /\ finished = work
  /\ pc' = "done"
  /\ v' = IF entry = "reduce" THEN merged ELSE v
  /\ UNCHANGED << typeVars, geomVars, entry, path, work, finished, visits,
                  joinop, merged >>

Build ==
  /\ pc = "typed"
  /\ N <= MaxGeomRank
  /\ \E lo \in Lowers, sh \in Inputs(N, space), dz \in DivByZero :
       Construct([i \in Dims |-> lo],
                 [i \in Dims |-> lo + sh[i][1]],
                 [i \in Dims |-> sh[i][2]], dz)

Next ==
  \/ \E n \in 0 .. MaxRankTried, od \in Iterate, id \in Iterate, es \in ExecSpaces :
       Instantiate(n, od, id, es)
  \/ Build
  \/ md_parallel_for
  \/ \E op \in JoinOps : md_parallel_reduce(op)
  \/ \E t \in work : RunTile(t)
  \/ Complete

Spec == Init /\ [][Next]_vars

(***************************************************************************)
(* Vocabulary of the properties.                                           *)
(***************************************************************************)
\* the constructor returned: a policy object exists
Built == pc \in {"built", "running", "done"}

Span(i) == m_upper[i] - m_lower[i]

\* ceil(a / b) for a >= 0 and b > 0, by its defining inequalities
Ceil(a, b) == CHOOSE q \in 0 .. a : q * b >= a /\ (q - 1) * b < a

RECURSIVE CeilProduct(_)
CeilProduct(n) ==
  IF n = 0 THEN 1 ELSE CeilProduct(n - 1) * Ceil(Span(n - 1), m_tile[n - 1])

RECURSIVE SumWeights(_)
SumWeights(S) ==
  IF S = {} THEN 0
  ELSE LET x == CHOOSE y \in S : TRUE IN Weight(x) + SumWeights(S \ {x})

\* the functor's contributions over the whole iteration space, folded in
\* the order of one loop nest over [m_lower, m_upper)
FoldBox(op) ==
  FoldSeq(op, Nest(LoopOrder(inner_direction, N), 1, m_lower, m_lower, m_upper))

(***************************************************************************)
(* C1: on a host (flattening) execution space, once md_parallel_for has    *)
(* run every work item of [0, m_num_tiles), the functor has been called    *)
(* exactly once on every coordinate of [m_lower, m_upper) and on no other; *)
(* and at every moment of the dispatch, whatever the order of the tiles,   *)
(* no coordinate has been visited twice or lies outside the space.         *)
(***************************************************************************)
C1_ExactlyOnce ==
  (entry = "for" /\ path = "flat") =>
    /\ \A x \in BagToSet(visits) : x \in Box /\ CopiesIn(x, visits) = 1
    /\ pc = "done" => BagToSet(visits) = Box

C1_Witness ==
  /\ pc = "done" /\ entry = "for" /\ path = "flat"
  /\ Cardinality(work) >= 4
  /\ m_lower[0] = 1
  /\ outer_direction = "Left"
  /\ \E i \in Dims : m_tile[i] > 0 /\ Span(i) % m_tile[i] # 0
  /\ \E i \in Dims : tile_arg[i] <= 0

(***************************************************************************)
(* C2: in every constructed policy, on either execution space and for any  *)
(* tile argument, m_tile_end[i] = ceil(span[i] / m_tile[i]) for the final  *)
(* m_tile (in every dimension where that quotient is defined), and         *)
(* m_num_tiles is the product of the m_tile_end[i].                        *)
(***************************************************************************)
C2_TileCountIdentity ==
  Built =>
    /\ \A i \in Dims : m_tile[i] > 0 => m_tile_end[i] = Ceil(Span(i), m_tile[i])
    /\ m_num_tiles = Product(m_tile_end, N)
    /\ (\A i \in Dims : m_tile[i] > 0) => m_num_tiles = CeilProduct(N)

(***************************************************************************)
(* C3: on Cuda the constructor throws exactly when the product of the      *)
(* final tile sizes exceeds 1024 (1024 itself is accepted), and a policy   *)
(* whose constructor threw is never dispatched.                            *)
(***************************************************************************)
C3_TileVolumeLimit ==
  (space = "Cuda" /\ pc \notin {"start", "rejected", "typed", "trapped"}) =>
    /\ (pc = "thrown") <=> (Product(m_tile, N) > 1024)
    /\ pc = "thrown" => (entry = "none" /\ work = {} /\ visits = EmptyBag)

C3_Witness ==
  /\ space = "Cuda" /\ pc = "thrown"
  /\ Product(m_tile, N) = 1025

C3_WitnessAccepted ==
  /\ space = "Cuda" /\ pc = "done"
  /\ Product(m_tile, N) = 1024

(***************************************************************************)
(* C4: every policy the constructor returns has m_tile[i] >= 1 in every    *)
(* dimension, and the constructor never divides by zero.                   *)
(***************************************************************************)
C4_TilePositive ==
  /\ pc # "trapped"
  /\ Built => \A i \in Dims : m_tile[i] >= 1

(***************************************************************************)
(* C5: on a host execution space a dimension with a positive tile argument *)
(* keeps it; an unset one gets 2, except the last dimension (inner Right)  *)
(* or the first (inner Left), which gets its span.  Rank 2, lower {0,0},   *)
(* upper {10,10}, no tile, inner Right: tile {2,10}, tile counts {5,1},    *)
(* 5 tiles.                                                                *)
(***************************************************************************)
C5_HostDefaultTiles ==
  (space # "Cuda" /\ Built) =>
    /\ \A i \in Dims :
         /\ tile_arg[i] > 0 => m_tile[i] = tile_arg[i]
         /\ (tile_arg[i] <= 0 /\ inner_direction = "Right") =>
              m_tile[i] = (IF i # N - 1 THEN 2 ELSE Span(i))
         /\ (tile_arg[i] <= 0 /\ inner_direction = "Left") =>
              m_tile[i] = (IF i # 0 THEN 2 ELSE Span(i))
    /\ ( /\ N = 2 /\ inner_direction = "Right"
         /\ m_lower = [i \in 0 .. 1 |-> 0]
         /\ m_upper = [i \in 0 .. 1 |-> 10]
         /\ tile_arg = [i \in 0 .. 1 |-> 0] ) =>
           /\ m_tile = [i \in 0 .. 1 |-> IF i = 0 THEN 2 ELSE 10]
           /\ m_tile_end = [i \in 0 .. 1 |-> IF i = 0 THEN 5 ELSE 1]
           /\ m_num_tiles = 5

C5_Witness ==
  /\ space # "Cuda" /\ pc = "built"
  /\ N = 2 /\ inner_direction = "Right"
  /\ m_lower = [i \in 0 .. 1 |-> 0]
  /\ m_upper = [i \in 0 .. 1 |-> 10]
  /\ tile_arg = [i \in 0 .. 1 |-> 0]
  /\ m_num_tiles = 5

(***************************************************************************)
(* C6: on Cuda every dimension with an unset tile argument gets 8 and      *)
(* every dimension with a positive one keeps it, also when both kinds      *)
(* occur in one argument.                                                  *)
(***************************************************************************)
C6_CudaPerDimensionDefault ==
  (space = "Cuda" /\ pc \in {"built", "running", "done", "thrown"}) =>
    \A i \in Dims : m_tile[i] = (IF tile_arg[i] <= 0 THEN 8 ELSE tile_arg[i])

(***************************************************************************)
(* C7 as stated: both entry points take the native closure on Cuda,        *)
(* without forming a work range, and the range [0, m_num_tiles) on a host  *)
(* space.                                                                  *)
(***************************************************************************)
C7_PathBySpaceBothEntries ==
  entry # "none" =>
    /\ path = (IF space = "Cuda" THEN "native" ELSE "flat")
    /\ path = "native" => work = {}
    /\ path = "flat" => work = 0 .. (m_num_tiles - 1)

(***************************************************************************)
(* C7 amended: md_parallel_for takes the native closure exactly on Cuda    *)
(* and never forms a work range there; md_parallel_reduce forms the range  *)
(* [0, m_num_tiles), one work item per tile, on every execution space.     *)
(***************************************************************************)
C7_PathSelection ==
  /\ entry = "for" => path = (IF space = "Cuda" THEN "native" ELSE "flat")
  /\ entry = "reduce" => path = "flat"
  /\ path = "native" => (work = {} /\ finished = {})
  /\ path = "flat" => (work = 0 .. (m_num_tiles - 1) /\ finished \subseteq work)

C7_Witness ==
  /\ space = "Cuda" /\ entry = "reduce" /\ path = "flat"
  /\ pc = "done" /\ work # {}

C9_RankRange ==
  pc # "start" => ((pc = "rejected") <=> (N \notin 2 .. 6))

C9_Witness == pc = "rejected" /\ N = 7

(***************************************************************************)
(* C10: the resolved directions are never Default: each is the pattern's   *)
(* when that is Left or Right, and Right otherwise, independently of the   *)
(* other; unset host tiles follow the resolved inner direction.            *)
(***************************************************************************)
C10_ResolvedDirections ==
  pc # "start" =>
    /\ outer_direction \in {"Left", "Right"}
    /\ inner_direction \in {"Left", "Right"}
    /\ OuterDir \in {"Left", "Right"} => outer_direction = OuterDir
    /\ InnerDir \in {"Left", "Right"} => inner_direction = InnerDir
    /\ OuterDir = "Default" => outer_direction = "Right"
    /\ InnerDir = "Default" => inner_direction = "Right"
    /\ (space # "Cuda" /\ Built /\ InnerDir \in {"Default", "Right"}) =>
         \A i \in Dims : (tile_arg[i] <= 0 /\ i < N - 1) => m_tile[i] = 2
    /\ (space # "Cuda" /\ Built /\ InnerDir = "Left") =>
         \A i \in Dims : (tile_arg[i] <= 0 /\ i > 0) => m_tile[i] = 2

C10_Witness ==
  /\ space # "Cuda" /\ pc = "built" /\ N = 3
  /\ InnerDir = "Default" /\ OuterDir = "Left"
  /\ \A i \in Dims : tile_arg[i] <= 0 /\ Span(i) = 3
  /\ m_tile = [i \in 0 .. 2 |-> IF i = 2 THEN 3 ELSE 2]
=============================================================================
